---- MODULE Spec2Model ----
(***************************************************************************)
(* Model of obsidian_to_JSONLS.py: the conversion of one note with YAML    *)
(* front matter into a SKOS graph, a JSON-LD file and an HTML page.        *)
(*                                                                         *)
(* Python strings are sequences of one-character strings, so that          *)
(* str.replace, urllib.parse.quote and re.search are computed character    *)
(* by character as the interpreter computes them.                          *)
(***************************************************************************)
EXTENDS Integers, Sequences, FiniteSets, TLC

VARIABLES
    pc,             \* position of the running call
    label,          \* clean_uri harness: the argument
    uri_bare,       \* clean_uri(label)
    uri_wrapped,    \* clean_uri("[[" + label + "]]")
    uri_again,      \* clean_uri(suffix of clean_uri(label))
    value,          \* parse_links harness: the argument
    result,         \* parse_links(value): the list returned, or the exception
    file_exists,    \* whether open(file_path) finds the file
    filename_raw,   \* base name of file_path without its extension
    post,           \* the front matter frontmatter.load returned
    g,              \* the rdflib Graph: a set of triples
    broader_links,  \* parse_links(post.get('broader'))
    narrower_links, \* parse_links(post.get('narrower'))
    related_links,  \* parse_links(post.get('related'))
    exact_match,    \* post.get('exactMatch')
    jsonld_data,    \* g.serialize(format='json-ld'): the triples serialized
    html,           \* the parts of html_content the front matter decides
    files,          \* the paths written
    printed         \* the messages printed

harness_vars == <<label, uri_bare, uri_wrapped, uri_again, value, result>>

run_vars ==
    <<file_exists, filename_raw, post, g, broader_links, narrower_links,
      related_links, exact_match, jsonld_data, html, files, printed>>

vars == <<pc, harness_vars, run_vars>>

(***************************************************************************)
(* Bounds of the model.                                                    *)
(***************************************************************************)
MaxLabelLen == 4
MaxToks == 6
MaxList == 2
MaxItems == 2

(***************************************************************************)
(* Configuration (lines 8-10).                                             *)
(***************************************************************************)
BASE_URI ==
    <<"h","t","t","p",":","/","/","e","x","a","m","p","l","e",".","o","r","g","/","k","b","/">>

LANG == "en"

(***************************************************************************)
(* Strings.                                                                *)
(***************************************************************************)
RECURSIVE Strings(_, _)
\* All strings over alphabet A of length at most n.
Strings(A, n) ==
    IF n = 0 THEN {<<>>}
    ELSE LET shorter == Strings(A, n - 1)
         IN  shorter \cup {Append(s, c) : s \in shorter, c \in A}

RECURSIVE Lists(_, _)
\* All lists of at most n items of S.
Lists(S, n) ==
    IF n = 0 THEN {<<>>}
    ELSE LET shorter == Lists(S, n - 1)
         IN  shorter \cup {Append(q, x) : q \in shorter, x \in S}

RECURSIVE RemovePair(_, _)
\* str.replace(p, "") for a two-character p: the non-overlapping occurrences
\* of p, found from the left, are removed.
RemovePair(s, p) ==
    IF Len(s) < 2 THEN s
    ELSE IF s[1] = p[1] /\ s[2] = p[2]
         THEN RemovePair(SubSeq(s, 3, Len(s)), p)
         ELSE <<s[1]>> \o RemovePair(Tail(s), p)

\* str.replace(a, b) for single characters a and b.
ReplaceChar(s, a, b) == [i \in 1..Len(s) |-> IF s[i] = a THEN b ELSE s[i]]

\* The characters urllib.parse.quote never escapes (letters, digits, "_.-~")
\* and its default safe character "/", as far as they occur in the model.
QuoteSafe ==
    {"a", "b", "h", "t", "m", "l", "B", "C", "D",
     "0", "1", "2", "5", "6", "7", "-", ".", "_", "~", "/"}

\* quote's escape of one character outside QuoteSafe: "%" and the two
\* uppercase hex digits of its byte.
PercentEscape(c) ==
    CASE c = " " -> <<"%", "2", "0">>
      [] c = "!" -> <<"%", "2", "1">>
      [] c = "%" -> <<"%", "2", "5">>
      [] c = "&" -> <<"%", "2", "6">>
      [] c = "[" -> <<"%", "5", "B">>
      [] c = "]" -> <<"%", "5", "D">>
      [] c = "|" -> <<"%", "7", "C">>

RECURSIVE quote(_)
\* urllib.parse.quote(s) with the default safe="/".
quote(s) ==
    IF s = <<>> THEN <<>>
    ELSE (IF s[1] \in QuoteSafe THEN <<s[1]>> ELSE PercentEscape(s[1]))
         \o quote(Tail(s))

(***************************************************************************)
(* clean_uri (lines 12-16).                                                *)
(***************************************************************************)
\* clean_suffix with the closing brackets left in place.
clean_suffix_open_only(l) ==
    quote(ReplaceChar(RemovePair(l, <<"[", "[">>), " ", "-"))

\* The suffix clean_uri appends to BASE_URI.
clean_suffix(l) ==
    LET clean == RemovePair(RemovePair(l, <<"[", "[">>), <<"]", "]">>)
    IN  quote(ReplaceChar(clean, " ", "-"))

clean_uri(l) == BASE_URI \o clean_suffix(l)

\* The part of a URI after the namespace prefix.
SuffixOf(uri) == SubSeq(uri, Len(BASE_URI) + 1, Len(uri))

(***************************************************************************)
(* Python values, as far as the front matter holds them: None, integers,   *)
(* strings, mappings (n entries) and lists of None, integers and strings.  *)
(***************************************************************************)
PyNone == [t |-> "none", n |-> 0, s |-> <<>>, l |-> <<>>]
PyInt(k) == [t |-> "int", n |-> k, s |-> <<>>, l |-> <<>>]
PyStr(str) == [t |-> "str", n |-> 0, s |-> str, l |-> <<>>]
PyDict(k) == [t |-> "dict", n |-> k, s |-> <<>>, l |-> <<>>]
PyList(items) == [t |-> "list", n |-> 0, s |-> <<>>, l |-> items]

\* A list's item: a scalar.
ItemNone == [t |-> "none", n |-> 0, s |-> <<>>]
ItemInt(k) == [t |-> "int", n |-> k, s |-> <<>>]
ItemStr(str) == [t |-> "str", n |-> 0, s |-> str]

\* Python's truth value of v (if not value, if post.get(...)).
Truthy(v) ==
    CASE v.t = "none" -> FALSE
      [] v.t = "int"  -> v.n # 0
      [] v.t = "dict" -> v.n # 0
      [] v.t = "str"  -> v.s # <<>>
      [] v.t = "list" -> v.l # <<>>

\* [value] for a scalar value.
AsItem(v) == [t |-> v.t, n |-> v.n, s |-> v.s]

(***************************************************************************)
(* re.search(r"\[\[([^\|\]]+)(\|[^\]]+)?\]\]", item) (line 36).             *)
(***************************************************************************)
\* s has the characters a, b at positions i, i+1.
PairAt(s, i, a, b) == i >= 1 /\ i + 1 <= Len(s) /\ s[i] = a /\ s[i + 1] = b

RECURSIVE RunLen(_, _, _)
\* The length of the longest run of characters outside Excl starting at i:
\* what a greedy [^...]+ first takes.
RunLen(s, i, Excl) ==
    IF i > Len(s) \/ s[i] \in Excl THEN 0 ELSE 1 + RunLen(s, i + 1, Excl)

\* (\|[^\]]+)?\]\] matches from position e: with the optional group, for some
\* length m of [^\]]+, or without it.
TailMatches(s, e) ==
    \/ /\ e <= Len(s)
       /\ s[e] = "|"
       /\ \E m \in 1..RunLen(s, e + 1, {"]"}) : PairAt(s, e + 1 + m, "]", "]")
    \/ PairAt(s, e, "]", "]")

\* The lengths k of group 1 with which the pattern matches at position i.
Group1Lens(s, i) ==
    IF PairAt(s, i, "[", "[")
    THEN {k \in 1..RunLen(s, i + 2, {"|", "]"}) : TailMatches(s, i + 2 + k)}
    ELSE {}

\* The greedy choice among them: the longest.
MaxOf(S) == CHOOSE k \in S : \A j \in S : j <= k

\* re.search with the pattern \[\[([^\]]+)\]\]: no group for the alias.
re_search_no_alias(s) ==
    LET lens(i) ==
            IF PairAt(s, i, "[", "[")
            THEN {k \in 1..RunLen(s, i + 2, {"]"}) : PairAt(s, i + 2 + k, "]", "]")}
            ELSE {}
        starts == {i \in 1..Len(s) : lens(i) # {}}
    IN  IF starts = {} THEN [found |-> FALSE, group1 |-> <<>>]
        ELSE LET i == CHOOSE x \in starts : \A y \in starts : x <= y
             IN  [found |-> TRUE, group1 |-> SubSeq(s, i + 2, i + 1 + MaxOf(lens(i)))]

\* re.search: the match at the leftmost position that has one, and its
\* group 1; found = FALSE is None.
re_search(s) ==
    LET starts == {i \in 1..Len(s) : Group1Lens(s, i) # {}}
    IN  IF starts = {} THEN [found |-> FALSE, group1 |-> <<>>]
        ELSE LET i == CHOOSE x \in starts : \A y \in starts : x <= y
                 k == MaxOf(Group1Lens(s, i))
             IN  [found |-> TRUE, group1 |-> SubSeq(s, i + 2, i + 1 + k)]

(***************************************************************************)
(* parse_links (lines 18-42).                                              *)
(***************************************************************************)
\* One pass of the loop body (lines 36-41) for a string item.
link_name(item) ==
    LET match == re_search(item)
    IN  IF match.found THEN match.group1 ELSE item

\* The loop (lines 33-42): re.search raises TypeError for an item that is
\* not a string, and the call ends there.
links_of(items) ==
    IF \E i \in 1..Len(items) : items[i].t # "str"
    THEN [raised |-> "TypeError", links |-> <<>>]
    ELSE [raised |-> "", links |-> [i \in 1..Len(items) |-> link_name(items[i].s)]]

\* parse_links without the guard of lines 23-24.
parse_links_unguarded(v) ==
    IF v.t = "str" THEN links_of(<<AsItem(v)>>)
    ELSE IF v.t = "list" THEN links_of(v.l)
    ELSE [raised |-> "", links |-> <<>>]

parse_links(v) ==
    IF ~Truthy(v) THEN [raised |-> "", links |-> <<>>]
    ELSE IF v.t = "str" THEN links_of(<<AsItem(v)>>)
    ELSE IF v.t = "list" THEN links_of(v.l)
    ELSE [raised |-> "", links |-> <<>>]

NoUri == <<>>

NoResult == [raised |-> "", links |-> <<>>]

(***************************************************************************)
(* rdflib terms and triples.                                               *)
(***************************************************************************)
\* URIRef(u) for a string u.
UriTerm(u) == [k |-> "uri", v |-> ItemStr(u), lang |-> ""]

\* Literal(x, lang=LANG) for a front-matter scalar x.  rdflib gives an integer
\* its datatype and drops the language tag.
LiteralTerm(x) == [k |-> "lit", v |-> x, lang |-> IF x.t = "int" THEN "" ELSE LANG]

SKOS_Concept == UriTerm(<<"skos:Concept">>)

Triple(subj, pred, obj) == [s |-> subj, p |-> pred, o |-> obj]

\* URIRef(u) (line 103) raises for a u that is no string: rdflib tests
\* (c in u) for each character it takes for invalid, a TypeError for None
\* and for an integer.  For a string it returns the URIRef, and only logs a
\* warning when the string holds one of those characters.
URIRef_raises(u) == u.t # "str"

(***************************************************************************)
(* generate_hierarchical_skos (lines 44-178).                              *)
(***************************************************************************)
subject_uri == clean_uri(filename_raw)

\* The front matter's fields; t = "none" is a key the header does not have.
EmptyPost ==
    [aliases |-> PyNone, definition |-> PyNone, scopeNote |-> PyNone,
     broader |-> PyNone, narrower |-> PyNone, related |-> PyNone,
     exactMatch |-> PyNone]

NoHtml ==
    [title |-> <<>>, definition |-> PyNone, broader |-> <<>>, narrower |-> <<>>,
     related |-> <<>>, external |-> PyNone, jsonld |-> {}]

RunIdle ==
    /\ file_exists = FALSE
    /\ filename_raw = <<>>
    /\ post = EmptyPost
    /\ g = {}
    /\ broader_links = <<>>
    /\ narrower_links = <<>>
    /\ related_links = <<>>
    /\ exact_match = PyNone
    /\ jsonld_data = {}
    /\ html = NoHtml
    /\ files = {}
    /\ printed = <<>>

\* The items of a field that is a list, or the field as the only item
\* (lines 68 and 100).
list_or_single(v) == IF v.t = "list" THEN v.l ELSE <<AsItem(v)>>

\* The altLabel triples had the aliases field been normalised the way
\* parse_links normalises: a value that is neither string nor list is empty.
alias_triples_as_links(subj, v) ==
    IF Truthy(v) /\ v.t \in {"str", "list"}
    THEN LET aliases == list_or_single(v)
         IN  {Triple(subj, "altLabel", LiteralTerm(aliases[i])) : i \in 1..Len(aliases)}
    ELSE {}

\* Lines 67-70: the altLabel triples of the aliases field.
alias_triples(subj, v) ==
    IF Truthy(v)
    THEN LET aliases == list_or_single(v)
         IN  {Triple(subj, "altLabel", LiteralTerm(aliases[i])) : i \in 1..Len(aliases)}
    ELSE {}

\* Lines 73-77: a definition or scopeNote triple when the field is truthy.
text_triples(subj, pred, v) ==
    IF Truthy(v) THEN {Triple(subj, pred, LiteralTerm(AsItem(v)))} ELSE {}

\* relation_triples with the loop ending one link early.
relation_triples_short(subj, pred, links) ==
    {Triple(subj, pred, UriTerm(clean_uri(links[i]))) : i \in 1..(Len(links) - 1)}

\* Lines 83-84, 88-89, 93-94: one triple per link, its object clean_uri(link).
relation_triples(subj, pred, links) ==
    {Triple(subj, pred, UriTerm(clean_uri(links[i]))) : i \in 1..Len(links)}

\* Lines 99-105: one triple per match whose URIRef does not raise.
exact_triples(subj, v) ==
    IF Truthy(v)
    THEN LET matches == list_or_single(v)
         IN  {Triple(subj, "exactMatch", UriTerm(matches[i].s)) :
                i \in {j \in 1..Len(matches) : ~URIRef_raises(matches[j])}}
    ELSE {}

HtmlExt == <<".html">>
JsonldExt == <<".jsonld">>

\* make_list (lines 116-117).
make_list(links) ==
    IF links # <<>>
    THEN [i \in 1..Len(links) |->
            [kind |-> "link",
             href |-> ReplaceChar(links[i], " ", "-") \o HtmlExt,
             text |-> links[i]]]
    ELSE <<[kind |-> "none", href |-> <<>>, text |-> <<"None">>]>>

\* Lines 109 and 175: the output paths.
output_json_path(name) == name \o JsonldExt
output_html_path(name) == name \o HtmlExt

(***************************************************************************)
(* The inputs of a run: a file that exists or not, a base name, and a      *)
(* front matter of at most MaxItems entries (a scalar or a list item each).*)
(***************************************************************************)
FileNames == {<<"a">>, <<"a", " ", "b">>}

GoodUri == <<"h", "t", "t", "p", ":", "/", "/", "w", "/", "Q", "1">>
BadUri == <<"n", "o", "t", " ", "a", " ", "v", "a", "l", "i", "d", " ", "u", "r", "i", "!", "!">>

Cost(v) == IF v.t = "list" THEN Len(v.l) ELSE IF v.t = "none" THEN 0 ELSE 1

AliasItems == {ItemStr(<<"b">>), ItemStr(<<"a", " ", "b">>), ItemInt(1)}
RelItems ==
    {ItemStr(<<"a", " ", "b">>), ItemStr(<<"[", "[", "a", " ", "b", "]", "]">>),
     ItemStr(<<"[", "[", "b", "|", "a", "]", "]">>), ItemInt(1)}
ExactItems == {ItemStr(GoodUri), ItemStr(BadUri), ItemInt(1)}

AliasValues(b) ==
    {v \in {PyNone, PyInt(0), PyInt(5), PyDict(1), PyStr(<<"b">>)} : Cost(v) <= b}
        \cup {PyList(q) : q \in Lists(AliasItems, b)}
TextValues(b) == {v \in {PyNone, PyStr(<<"d">>)} : Cost(v) <= b}
RelValues(b) ==
    {v \in {PyNone, PyInt(5), PyStr(<<>>), PyStr(<<"[", "[", "a", " ", "b", "]", "]">>)} :
        Cost(v) <= b}
        \cup {PyList(q) : q \in Lists(RelItems, b)}
ExactValues(b) ==
    {v \in {PyNone, PyInt(5), PyStr(GoodUri), PyStr(BadUri)} : Cost(v) <= b}
        \cup {PyList(q) : q \in Lists(ExactItems, b)}

Init ==
    /\ pc = "start"
    /\ file_exists \in BOOLEAN
    /\ filename_raw \in FileNames
    /\ post = EmptyPost
    /\ g = {}
    /\ broader_links = <<>>
    /\ narrower_links = <<>>
    /\ related_links = <<>>
    /\ exact_match = PyNone
    /\ jsonld_data = {}
    /\ html = NoHtml
    /\ files = {}
    /\ printed = <<>>
    /\ label = <<>>
    /\ uri_bare = NoUri
    /\ uri_wrapped = NoUri
    /\ uri_again = NoUri
    /\ value = PyNone
    /\ result = NoResult

\* Lines 52-57: the file is missing; the message is printed and the call
\* returns.
LoadNotFound ==
    /\ pc = "start"
    /\ ~file_exists
    /\ printed' = Append(printed, <<"Error: not found">>)
    /\ pc' = "returned"
    /\ UNCHANGED <<file_exists, filename_raw, post, g, broader_links, narrower_links,
                   related_links, exact_match, jsonld_data, html, files, harness_vars>>

\* Lines 52-54: frontmatter.load returns the header's fields.  (A file that
\* exists and cannot be read or parsed is outside the model.)
LoadOk ==
    /\ pc = "start"
    /\ file_exists
    /\ \E al \in AliasValues(MaxItems) :
       \E de \in TextValues(MaxItems - Cost(al)) :
       \E sn \in TextValues(MaxItems - Cost(al) - Cost(de)) :
       \E br \in RelValues(MaxItems - Cost(al) - Cost(de) - Cost(sn)) :
       \E na \in RelValues(MaxItems - Cost(al) - Cost(de) - Cost(sn) - Cost(br)) :
       \E re \in RelValues(MaxItems - Cost(al) - Cost(de) - Cost(sn) - Cost(br) - Cost(na)) :
       \E em \in ExactValues(MaxItems - Cost(al) - Cost(de) - Cost(sn) - Cost(br)
                                - Cost(na) - Cost(re)) :
          post' = [aliases |-> al, definition |-> de, scopeNote |-> sn, broader |-> br,
                   narrower |-> na, related |-> re, exactMatch |-> em]
    /\ pc' = "loaded"
    /\ UNCHANGED <<file_exists, filename_raw, g, broader_links, narrower_links,
                   related_links, exact_match, jsonld_data, html, files, printed,
                   harness_vars>>

\* Lines 60-62.
CreateMainConcept ==
    /\ pc = "loaded"
    /\ g' = g \cup {Triple(subject_uri, "type", SKOS_Concept),
                    Triple(subject_uri, "prefLabel", LiteralTerm(ItemStr(filename_raw)))}
    /\ pc' = "concept"
    /\ UNCHANGED <<file_exists, filename_raw, post, broader_links, narrower_links,
                   related_links, exact_match, jsonld_data, html, files, printed,
                   harness_vars>>

\* Lines 67-70.
ProcessAliases ==
    /\ pc = "concept"
    /\ g' = g \cup alias_triples(subject_uri, post.aliases)
    /\ pc' = "aliases"
    /\ UNCHANGED <<file_exists, filename_raw, post, broader_links, narrower_links,
                   related_links, exact_match, jsonld_data, html, files, printed,
                   harness_vars>>

\* Lines 73-77.
ProcessDefinitions ==
    /\ pc = "aliases"
    /\ g' = g \cup text_triples(subject_uri, "definition", post.definition)
              \cup text_triples(subject_uri, "scopeNote", post.scopeNote)
    /\ pc' = "definitions"
    /\ UNCHANGED <<file_exists, filename_raw, post, broader_links, narrower_links,
                   related_links, exact_match, jsonld_data, html, files, printed,
                   harness_vars>>

\* Lines 82-84.  An exception of parse_links is not caught: the run ends.
ProcessBroader ==
    /\ pc = "definitions"
    /\ LET r == parse_links(post.broader)
       IN  IF r.raised # ""
           THEN pc' = "crashed" /\ UNCHANGED <<g, broader_links>>
           ELSE /\ broader_links' = r.links
                /\ g' = g \cup relation_triples(subject_uri, "broader", r.links)
                /\ pc' = "broader"
    /\ UNCHANGED <<file_exists, filename_raw, post, narrower_links, related_links,
                   exact_match, jsonld_data, html, files, printed, harness_vars>>

\* Lines 87-89.
ProcessNarrower ==
    /\ pc = "broader"
    /\ LET r == parse_links(post.narrower)
       IN  IF r.raised # ""
           THEN pc' = "crashed" /\ UNCHANGED <<g, narrower_links>>
           ELSE /\ narrower_links' = r.links
                /\ g' = g \cup relation_triples(subject_uri, "narrower", r.links)
                /\ pc' = "narrower"
    /\ UNCHANGED <<file_exists, filename_raw, post, broader_links, related_links,
                   exact_match, jsonld_data, html, files, printed, harness_vars>>

\* Lines 92-94.
ProcessRelated ==
    /\ pc = "narrower"
    /\ LET r == parse_links(post.related)
       IN  IF r.raised # ""
           THEN pc' = "crashed" /\ UNCHANGED <<g, related_links>>
           ELSE /\ related_links' = r.links
                /\ g' = g \cup relation_triples(subject_uri, "related", r.links)
                /\ pc' = "related"
    /\ UNCHANGED <<file_exists, filename_raw, post, broader_links, narrower_links,
                   exact_match, jsonld_data, html, files, printed, harness_vars>>

\* Lines 98-105.
ProcessExactMatch ==
    /\ pc = "related"
    /\ exact_match' = post.exactMatch
    /\ g' = g \cup exact_triples(subject_uri, post.exactMatch)
    /\ pc' = "exact"
    /\ UNCHANGED <<file_exists, filename_raw, post, broader_links, narrower_links,
                   related_links, jsonld_data, html, files, printed, harness_vars>>

\* Lines 108-112.
ExportJsonLd ==
    /\ pc = "exact"
    /\ jsonld_data' = g
    /\ files' = files \cup {output_json_path(filename_raw)}
    /\ printed' = Append(printed, <<"SKOS JSON-LD Generated">>)
    /\ pc' = "jsonld"
    /\ UNCHANGED <<file_exists, filename_raw, post, g, broader_links, narrower_links,
                   related_links, exact_match, html, harness_vars>>

\* Lines 116-178.
ExportHtml ==
    /\ pc = "jsonld"
    /\ html' = [title |-> filename_raw,
                definition |-> IF post.definition.t = "none"
                               THEN PyStr(<<"No definition provided.">>)
                               ELSE post.definition,
                broader |-> make_list(broader_links),
                narrower |-> make_list(narrower_links),
                related |-> make_list(related_links),
                external |-> IF Truthy(exact_match) THEN exact_match ELSE PyStr(<<"#">>),
                jsonld |-> jsonld_data]
    /\ files' = files \cup {output_html_path(filename_raw)}
    /\ printed' = Append(printed, <<"HTML Visualization Generated">>)
    /\ pc' = "done"
    /\ UNCHANGED <<file_exists, filename_raw, post, g, broader_links, narrower_links,
                   related_links, exact_match, jsonld_data, harness_vars>>

Next ==
    \/ LoadNotFound
    \/ LoadOk
    \/ CreateMainConcept
    \/ ProcessAliases
    \/ ProcessDefinitions
    \/ ProcessBroader
    \/ ProcessNarrower
    \/ ProcessRelated
    \/ ProcessExactMatch
    \/ ExportJsonLd
    \/ ExportHtml

Spec == Init /\ [][Next]_vars

(***************************************************************************)
(* Harness for clean_uri: the argument is any string over LabelChars.      *)
(***************************************************************************)
LabelChars == {"a", " ", "[", "]", "&"}


InitUri ==
    /\ pc = "uri_start"
    /\ label \in Strings(LabelChars, MaxLabelLen)
    /\ uri_bare = NoUri
    /\ uri_wrapped = NoUri
    /\ uri_again = NoUri
    /\ value = PyNone
    /\ result = NoResult
    /\ RunIdle

CleanBare ==
    /\ pc = "uri_start"
    /\ uri_bare' = clean_uri(label)
    /\ pc' = "uri_bare"
    /\ UNCHANGED <<label, uri_wrapped, uri_again, value, result, run_vars>>

CleanWrapped ==
    /\ pc = "uri_bare"
    /\ uri_wrapped' = clean_uri(<<"[", "[">> \o label \o <<"]", "]">>)
    /\ pc' = "uri_wrapped"
    /\ UNCHANGED <<label, uri_bare, uri_again, value, result, run_vars>>

CleanAgain ==
    /\ pc = "uri_wrapped"
    /\ uri_again' = clean_uri(SuffixOf(uri_bare))
    /\ pc' = "uri_done"
    /\ UNCHANGED <<label, uri_bare, uri_wrapped, value, result, run_vars>>

(***************************************************************************)
(* Harness for parse_links: the argument is None, an integer, a mapping,   *)
(* any string made of at most MaxToks of the pieces LinkToks, or a list of *)
(* at most MaxList of the items ListItems.                                 *)
(***************************************************************************)
LinkToks == {<<"[", "[">>, <<"]", "]">>, <<"|">>, <<"]">>, <<"a">>, <<" ">>}

RECURSIVE TokStrings(_)
TokStrings(n) ==
    IF n = 0 THEN {<<>>}
    ELSE LET shorter == TokStrings(n - 1)
         IN  shorter \cup {s \o k : s \in shorter, k \in LinkToks}

ListItems ==
    {ItemStr(<<"a">>), ItemStr(<<"[", "[", "a", " ", "a", "]", "]">>),
     ItemStr(<<"[", "[", " ", "a", "|", "a", "]", "]">>), ItemStr(<<>>),
     ItemInt(1), ItemNone}

LinkValues ==
    {PyNone, PyInt(0), PyInt(5), PyDict(0), PyDict(1)}
        \cup {PyStr(s) : s \in TokStrings(MaxToks)}
        \cup {PyList(q) : q \in Lists(ListItems, MaxList)}

InitLinks ==
    /\ pc = "links_start"
    /\ value \in LinkValues
    /\ result = NoResult
    /\ label = <<>>
    /\ uri_bare = NoUri
    /\ uri_wrapped = NoUri
    /\ uri_again = NoUri
    /\ RunIdle

ParseLinksCall ==
    /\ pc = "links_start"
    /\ result' = parse_links(value)
    /\ pc' = "links_done"
    /\ UNCHANGED <<label, uri_bare, uri_wrapped, uri_again, value, run_vars>>

NextLinks == ParseLinksCall

SpecLinks == InitLinks /\ [][NextLinks]_vars

NextUri == CleanBare \/ CleanWrapped \/ CleanAgain

SpecUri == InitUri /\ [][NextUri]_vars

(***************************************************************************)
(* Properties of clean_uri, under SpecUri.                                 *)
(***************************************************************************)
\* C2: for any display name N, with or without spaces and with or without
\* wiki-link brackets, clean_uri(N) and clean_uri("[[" + N + "]]") are the
\* identical URI.
C2_BracketsIgnored ==
    pc \in {"uri_wrapped", "uri_done"} => uri_wrapped = uri_bare

\* A name with a space and a bracket of its own has gone through both calls.
C2_Witness ==
    /\ pc = "uri_wrapped"
    /\ \E i \in 1..Len(label) : label[i] = " "
    /\ \E i \in 1..Len(label) : label[i] = "]"
    /\ uri_wrapped # BASE_URI

\* C7: if S is the suffix that clean_uri(N) appends to the namespace prefix,
\* then clean_uri(S) equals clean_uri(N), for any name N.
C7_Idempotent ==
    pc = "uri_done" => uri_again = uri_bare

(***************************************************************************)
(* Properties of parse_links, under SpecLinks.  The link syntax is stated  *)
(* here on its own, as the text "[[" name "]]" or "[[" name "|" alias "]]".*)
(***************************************************************************)
HasChar(s, C) == \E i \in 1..Len(s) : s[i] \in C

NameOk(n) == n # <<>> /\ ~HasChar(n, {"|", "]"})

AliasNoBracket(a) == a # <<>> /\ ~HasChar(a, {"]"})

AliasAny(a) == a # <<>>

\* w is a link text, its alias, if any, accepted by AliasOk.
IsLinkText(w, AliasOk(_)) ==
    /\ Len(w) >= 5
    /\ PairAt(w, 1, "[", "[")
    /\ PairAt(w, Len(w) - 1, "]", "]")
    /\ LET inner == SubSeq(w, 3, Len(w) - 2)
       IN  \E k \in 1..Len(inner) :
              /\ NameOk(SubSeq(inner, 1, k))
              /\ \/ k = Len(inner)
                 \/ /\ inner[k + 1] = "|"
                    /\ AliasOk(SubSeq(inner, k + 2, Len(inner)))

\* The positions of item where a link text starts.
LinkStarts(item, AliasOk(_)) ==
    {i \in 1..Len(item) : \E j \in i..Len(item) : IsLinkText(SubSeq(item, i, j), AliasOk)}

\* The name of the link text that starts at position i.
NameAt(item, i) == SubSeq(item, i + 2, i + 1 + RunLen(item, i + 2, {"|", "]"}))

MinOf(S) == CHOOSE x \in S : \A y \in S : x <= y

\* The name the link-unwrapping rule gives item.
UnwrappedName(item, AliasOk(_)) ==
    IF LinkStarts(item, AliasOk) = {} THEN item
    ELSE NameAt(item, MinOf(LinkStarts(item, AliasOk)))

AllStrings(items) == \A i \in 1..Len(items) : items[i].t = "str"

\* What C3 says of every value but a single string.
C3_OtherShapes ==
    /\ (value.t = "none" => result = NoResult)
    /\ (value.t = "list" /\ AllStrings(value.l) =>
          /\ result.raised = ""
          /\ Len(result.links) = Len(value.l)
          /\ \A i \in 1..Len(value.l) :
                result.links[i] = UnwrappedName(value.l[i].s, AliasNoBracket))
    /\ (value.t \in {"int", "dict"} => result = NoResult)

UnwrapRule(AliasOk(_)) ==
    (pc = "links_done" /\ value.t = "str" /\ value.s # <<>>) =>
        /\ result.raised = ""
        /\ Len(result.links) = 1
        /\ (IsLinkText(value.s, AliasOk) => result.links[1] = NameAt(value.s, 1))
        /\ (LinkStarts(value.s, AliasOk) = {} => result.links[1] = value.s)
        /\ result.links[1] = UnwrappedName(value.s, AliasOk)

\* C4, as stated: for every non-empty name without '|' or ']' and every
\* alias, "[[name]]" and "[[name|alias]]" yield name; an item with no bracket
\* pattern yields itself; with several patterns the leftmost decides.
C4_Original == UnwrapRule(AliasAny)

\* C4, amended: as stated, for every non-empty alias that contains no ']'.
C4_Unwrap == UnwrapRule(AliasNoBracket)

\* An item with two link texts of different names has yielded the first.
C4_Witness ==
    /\ pc = "links_done"
    /\ value.t = "str"
    /\ Cardinality(LinkStarts(value.s, AliasNoBracket)) = 2
    /\ \E i, j \in LinkStarts(value.s, AliasNoBracket) :
          i < j /\ NameAt(value.s, i) # NameAt(value.s, j)
                /\ result.links = <<NameAt(value.s, i)>>

RECURSIVE LStrip(_)
LStrip(s) == IF s # <<>> /\ s[1] = " " THEN LStrip(Tail(s)) ELSE s

RECURSIVE RStrip(_)
RStrip(s) ==
    IF s # <<>> /\ s[Len(s)] = " " THEN RStrip(SubSeq(s, 1, Len(s) - 1)) ELSE s

\* s without its leading and trailing whitespace.
Trim(s) == RStrip(LStrip(s))

\* C8: when an item contains a wiki-link pattern, the name parse_links gives
\* is the text between "[[" and the first '|' or "]]" with leading and
\* trailing whitespace removed, so "[[ Name ]]" and "[[Name]]" yield the same
\* name.
C8_TrimmedName ==
    (pc = "links_done" /\ value.t = "str" /\ LinkStarts(value.s, AliasNoBracket) # {}) =>
        result.links = <<Trim(UnwrappedName(value.s, AliasNoBracket))>>

(***************************************************************************)
(* Properties of a run of generate_hierarchical_skos, under Spec.          *)
(***************************************************************************)
\* The graph is built: every g.add of the run is behind.
GraphBuilt == pc \in {"exact", "jsonld", "done"}

\* The objects of the triples of g with predicate pred.
ObjectsOf(pred) == {x.o : x \in {y \in g : y.p = pred}}

\* A bare name: no bracket and no alias bar.
IsBareName(s) == ~HasChar(s, {"[", "]", "|"})

\* The reference name of an item that is a bare name or one link text.
ReferenceName(s) == IF IsBareName(s) THEN s ELSE NameAt(s, 1)

IsReference(x) ==
    x.t = "str" /\ (IsBareName(x.s) \/ IsLinkText(x.s, AliasNoBracket))

RelationFields == {"broader", "narrower", "related"}

\* C1: for each relation field F whose value is a list of strings, each a
\* bare name or a wiki-link, the objects of the F triples of the built graph
\* are exactly the identifiers of the items' names, all with the main concept
\* as subject; when F is absent or an empty list the graph has no F triple.
C1_RelationObjects ==
    GraphBuilt =>
        \A F \in RelationFields :
            /\ (post[F].t = "list" /\ \A i \in 1..Len(post[F].l) : IsReference(post[F].l[i])) =>
                  /\ ObjectsOf(F) =
                        {UriTerm(clean_uri(ReferenceName(post[F].l[i].s))) :
                            i \in 1..Len(post[F].l)}
                  /\ \A x \in g : x.p = F => x.s = clean_uri(filename_raw)
            /\ (post[F].t = "none" \/ post[F] = PyList(<<>>)) => ObjectsOf(F) = {}

\* A wiki-link and a bare name under narrower have become two triples.
C1_Witness ==
    /\ pc = "done"
    /\ post.narrower.t = "list"
    /\ \E i, j \in 1..Len(post.narrower.l) :
          /\ IsReference(post.narrower.l[i])
          /\ IsReference(post.narrower.l[j])
          /\ IsBareName(post.narrower.l[i].s)
          /\ ~IsBareName(post.narrower.l[j].s)
    /\ Cardinality(ObjectsOf("narrower")) = 2

\* Characters rdflib takes for invalid in a URI (the double quote, the
\* backslash and the backquote are three more).
InvalidUriChars == {"<", ">", " ", "{", "}", "|", "^"}

WellFormedUri(s) == ~HasChar(s, InvalidUriChars)

\* The strings the exactMatch field holds, as written in the front matter.
RawMatches ==
    IF post.exactMatch.t = "list"
    THEN {post.exactMatch.l[i].s : i \in {j \in 1..Len(post.exactMatch.l) :
                                              post.exactMatch.l[j].t = "str"}}
    ELSE IF post.exactMatch.t = "str" THEN {post.exactMatch.s} ELSE {}

\* C5: for an exactMatch value that is not a well-formed URI no exactMatch
\* triple is added, the run still completes and writes both output files;
\* and every exactMatch triple has the raw front-matter value as its object.
C5_ExternalMatchIsolation ==
    /\ (GraphBuilt /\ post.exactMatch.t = "str" /\ ~WellFormedUri(post.exactMatch.s)) =>
          ObjectsOf("exactMatch") = {}
    /\ (pc = "done" /\ post.exactMatch.t = "str" /\ ~WellFormedUri(post.exactMatch.s)) =>
          files = {output_json_path(filename_raw), output_html_path(filename_raw)}
    /\ GraphBuilt => ObjectsOf("exactMatch") \subseteq {UriTerm(s) : s \in RawMatches}

\* The run is over: no step of it is left to take.
RunOver == pc \in {"returned", "crashed", "done"}

\* C6: every run ends either with the input file missing, the error message
\* printed, no triple built and no file written, or with the input loaded
\* and both the .jsonld and the .html file written; once the load has
\* succeeded no shape of a front-matter value aborts the run.
C6_AllOrNothing ==
    RunOver =>
        \/ /\ ~file_exists
           /\ printed = <<<<"Error: not found">>>>
           /\ g = {}
           /\ files = {}
        \/ /\ file_exists
           /\ pc = "done"
           /\ files = {output_json_path(filename_raw), output_html_path(filename_raw)}

\* The altLabel triples the aliases field has given.
AltLabels == ObjectsOf("altLabel")

AliasesDone == pc \notin {"start", "returned", "loaded", "concept"}

\* What C9 says of an aliases value that is absent, a string or a list.
C9_StringOrList ==
    /\ (~Truthy(post.aliases) => AltLabels = {})
    /\ (post.aliases.t = "str" /\ Truthy(post.aliases) =>
          AltLabels = {LiteralTerm(AsItem(post.aliases))})
    /\ (post.aliases.t = "list" =>
          AltLabels = {LiteralTerm(post.aliases.l[i]) : i \in 1..Len(post.aliases.l)})

\* C9, as stated: the aliases field is normalised as the relation fields
\* are; a value that is neither string nor list is treated as empty, so the
\* graph has no altLabel triple.
C9_Original ==
    AliasesDone =>
        /\ C9_StringOrList
        /\ (post.aliases.t \in {"int", "dict"} => AltLabels = {})

\* C9, amended: null, absent or otherwise falsy aliases yield no altLabel
\* triple, a string one, a list one per item; a truthy value of any other
\* shape (a non-zero number, a non-empty mapping) is taken as a single alias
\* and yields exactly one altLabel triple.
C9_Aliases ==
    AliasesDone =>
        /\ C9_StringOrList
        /\ (post.aliases.t \in {"int", "dict"} /\ Truthy(post.aliases) =>
              AltLabels = {LiteralTerm(AsItem(post.aliases))})

\* A number given as aliases has become one altLabel triple of a finished run.
C9_Witness ==
    /\ pc = "done"
    /\ post.aliases = PyInt(5)
    /\ Cardinality(AltLabels) = 1

\* The list items make_list renders for links, with every link's href the
\* path the tool writes its page to when run on a note of that base name.
SiblingItems(links) ==
    IF links = <<>>
    THEN <<[kind |-> "none", href |-> <<>>, text |-> <<"None">>]>>
    ELSE [i \in 1..Len(links) |->
            [kind |-> "link", href |-> output_html_path(links[i]), text |-> links[i]]]

\* C10: for every reference name R under broader, narrower or related, the
\* href of its link item is the HTML file name the tool writes when run on a
\* note whose base name is R; an empty list renders as one "None" item, a
\* non-empty list as one link item per reference, in declaration order.
C10_SiblingLinks ==
    pc = "done" =>
        /\ output_html_path(filename_raw) \in files
        /\ html.broader = SiblingItems(broader_links)
        /\ html.narrower = SiblingItems(narrower_links)
        /\ html.related = SiblingItems(related_links)

====
